---- MODULE Spec2Model ----
(***************************************************************************)
(* ReferenceManager (src/src/editor/util/ReferenceManager.js): keeps the   *)
(* labels of the citations (xref[ref-type='bibr']) and of the bibliography *)
(* entries (ref-list > ref) of a document in step with the citations.      *)
(*                                                                         *)
(* Representation.  A JavaScript string that the code takes apart (the rid *)
(* attribute of an xref, which is split at blanks) is a sequence of        *)
(* one-character strings; every other string (node ids, attribute names,   *)
(* ref-type values, labels) is a TLA+ string.  `undefined` is Undefined    *)
(* for strings and NoPos for a position.  A node without a `state` object, *)
(* with an empty one and with one whose fields are undefined are the same  *)
(* here: all fields Undefined.                                             *)
(*                                                                         *)
(* order, refLabels, xrefLabels and change.updated are plain objects: a    *)
(* map of their own keys, read through Object.prototype.  A position is a  *)
(* positive integer; a member of Object.prototype read in place of one is  *)
(* a negative integer (ProtoMember), and in place of a label it is the     *)
(* string ProtoLabel.                                                      *)
(***************************************************************************)
EXTENDS Integers, Sequences, FiniteSets, TLC

\* ------------------------------------------------------------- bounds
MaxXrefs == 2
MaxRefs == 2
MaxPending == 2
MaxOps == 2

\* ------------------------------------------------------------- values
Undefined == "undefined"
NoPos == 0
RefListId == "ref-list"
RefTypes == {"bibr", "fig"}
\* the rid attribute values of the citations of the documents the recompute is
\* explored on: "", "B A", "A C", "A A", "B A B"
RidChoices ==
  { <<>>, <<"B", " ", "A">>, <<"A", " ", "C">>, <<"A", " ", "A">>, <<"B", " ", "A", " ", "B">> }
\* the ids of ref elements; the ref with id X has the entity key "k" \o X as its rid
AllRefIds == <<"A", "B", "C">>
RefIds == { AllRefIds[i] : i \in 1..MaxRefs }
KeyOf(id) == "k" \o id
IdOf(key) == CHOOSE id \in RefIds : KeyOf(id) = key
Keys == { KeyOf(id) : id \in RefIds }
\* the two xref ids of the documents whose histories are explored, the rid values
\* their citations are given by an edit ("A", "B A"), and the lists updateReferences
\* is called with there
XrefPool == {"x1", "x2"}
EditRids == { <<"A">>, <<"B", " ", "A">> }
EditKeyLists == { <<>>, <<KeyOf("A")>> }

VARIABLES
  xrefs,        \* the xref elements of the document, in document order
  refs,         \* the children of ref-list, in order
  entityDb,     \* entity ids the entity db holds a record for
  timers,       \* the number of callbacks given to setTimeout and not yet run
  status,       \* "active" | "disposed": is _onDocumentChange subscribed
  last,         \* the operation that ran last ("recompute-again": a recompute
                \* that ran right after a recompute)
  change,       \* the ops of a committed change the handler has yet to see or saw last
                \* (kept only where the classification alone is explored)
  needsUpdate,  \* needsUpdate as the handler left it, if the last operation ran it
  order,        \* `order` as _updateCitationLabels left it, if the last operation ran it
  out,          \* the `updated` sets of the changes the last operation emitted
  arg,          \* what the last operation was called with, if it was a call of a method
  ret           \* what the last operation returned, if it was getBibliography

vars == <<xrefs, refs, entityDb, timers, status, last, change, needsUpdate, order, out, arg, ret>>

NoArg == <<>>
NoRet == <<>>

\* ------------------------------------------------------------- helpers
Range(s) == { s[i] : i \in DOMAIN s }

RECURSIVE SelectSeqBy(_, _)
\* the elements of s with flag TRUE in keep (same length)
SelectSeqBy(s, keep) ==
  IF s = <<>> THEN <<>>
  ELSE (IF Head(keep) THEN <<Head(s)>> ELSE <<>>) \o SelectSeqBy(Tail(s), Tail(keep))

RECURSIVE Flatten(_)
\* the JavaScript string as one TLA+ string
Flatten(cs) == IF cs = <<>> THEN "" ELSE Head(cs) \o Flatten(Tail(cs))

RECURSIVE SplitFrom(_, _, _)
SplitFrom(s, i, cur) ==
  IF i > Len(s) THEN <<Flatten(cur)>>
  ELSE IF s[i] = " " THEN <<Flatten(cur)>> \o SplitFrom(s, i + 1, <<>>)
  ELSE SplitFrom(s, i + 1, Append(cur, s[i]))

\* String.prototype.split(' '): "" gives [""], "A B" gives ["A","B"]
Split(s) == SplitFrom(s, 1, <<>>)

\* ------------------------------------------------------------- label generator
Digits == <<"0", "1", "2", "3", "4", "5", "6", "7", "8", "9">>

RECURSIVE DecStr(_)
\* a number as a string; Object.prototype, handed over in place of a number, as the
\* string it converts to
DecStr(n) ==
  IF n < 0 THEN "[object Object]"
  ELSE IF n < 10 THEN Digits[n + 1]
  ELSE DecStr(n \div 10) \o Digits[(n % 10) + 1]

RECURSIVE JoinNumbers(_)
JoinNumbers(ns) ==
  IF ns = <<>> THEN ""
  ELSE IF Len(ns) = 1 THEN DecStr(ns[1])
  ELSE DecStr(ns[1]) \o "," \o JoinNumbers(Tail(ns))

XrefId(n) == "x" \o DecStr(n)
EmptyMap == [x \in {} |-> 0]

\* labelGenerator.getLabel(position)
GetLabel(n) == DecStr(n)
\* labelGenerator.getLabel([positions])
GetLabelList(ns) == JoinNumbers(ns)

\* ------------------------------------------------------------- plain objects
\* the property names every plain object inherits from Object.prototype, in the
\* order of the strings their values convert to ("[object Object]" for __proto__,
\* "function Object() ..." for constructor, "function __defineGetter__() ..." ...)
ProtoNames ==
  << "__proto__", "constructor", "__defineGetter__", "__defineSetter__", "__lookupGetter__",
     "__lookupSetter__", "hasOwnProperty", "isPrototypeOf", "propertyIsEnumerable",
     "toLocaleString", "toString", "valueOf" >>

IsProtoName(key) == \E i \in DOMAIN ProtoNames : ProtoNames[i] = key

\* the inherited member read where a position is expected: a negative integer, the
\* greater the later its string form sorts
ProtoMember(key) ==
  (CHOOSE i \in DOMAIN ProtoNames : ProtoNames[i] = key) - (Len(ProtoNames) + 1)

\* the inherited member read where a label is expected
ProtoLabel(key) == "<Object.prototype." \o key \o ">"

\* obj[key] = val for a number, string or boolean val: an own property, but for
\* __proto__, whose setter ignores a value that is not an object
ObjSet(obj, key, val) == IF key = "__proto__" THEN obj ELSE (key :> val) @@ obj

\* obj[key] where a position is expected
ObjGetPos(obj, key) ==
  IF key \in DOMAIN obj THEN obj[key]
  ELSE IF IsProtoName(key) THEN ProtoMember(key)
  ELSE NoPos

\* obj[key] where a label is expected
ObjGetLabel(obj, key) ==
  IF key \in DOMAIN obj THEN obj[key]
  ELSE IF IsProtoName(key) THEN ProtoLabel(key)
  ELSE Undefined

\* what a call of _updateCitationLabels that throws leaves: line 158 calls
\* order.hasOwnProperty, which is a number once 'hasOwnProperty' is a key of order
Thrown == [threw |-> "TypeError: order.hasOwnProperty is not a function"]
IsThrown(v) == "threw" \in DOMAIN v

\* ------------------------------------------------------------- document
\* an xref element: id, the ref-type and rid attributes, state.label
XrefNode(id, rt, rid) == [id |-> id, reftype |-> rt, rid |-> rid, label |-> Undefined]
\* a ref element: id, the rid attribute, state.label, state.pos, state.entity
RefNode(id, key) == [id |-> id, rid |-> key, label |-> Undefined, pos |-> NoPos, entity |-> Undefined]

\* doc.findAll("xref[ref-type='bibr']")
FindBibrXrefs(xs) == SelectSeq(xs, LAMBDA x : x.reftype = "bibr")

\* doc.get(id) finds a node
DocHas(xs, rs, id) ==
  \/ \E i \in DOMAIN xs : xs[i].id = id
  \/ \E i \in DOMAIN rs : rs[i].id = id
  \/ id = RefListId

\* doc.get(id).getAttribute('ref-type'); only an xref carries the attribute
GetRefType(xs, rs, id) ==
  IF \E i \in DOMAIN xs : xs[i].id = id
  THEN (CHOOSE x \in Range(xs) : x.id = id).reftype
  ELSE Undefined

\* entityDb.get(refId)
EntityGet(db, key) == IF key \in db THEN key ELSE Undefined

\* ------------------------------------------------------------- _updateCitationLabels
\* the loop's locals: pos, order, refLabels, and numbers of the xref at hand
StartPos == 1

\* lines 157-163: one id of an xref's rids
AssignId(acc, id) ==
  IF IsThrown(acc) THEN acc
  ELSE IF "hasOwnProperty" \in DOMAIN acc.order THEN Thrown
  ELSE
    LET fresh == id \notin DOMAIN acc.order
        ord == IF fresh THEN ObjSet(acc.order, id, acc.pos) ELSE acc.order
    IN [ pos |-> IF fresh THEN acc.pos + 1 ELSE acc.pos,
         order |-> ord,
         refLabels |-> IF fresh THEN ObjSet(acc.refLabels, id, GetLabel(ObjGetPos(ord, id)))
                       ELSE acc.refLabels,
         numbers |-> Append(acc.numbers, ObjGetPos(ord, id)),
         xrefLabels |-> acc.xrefLabels ]

RECURSIVE AssignIds(_, _)
AssignIds(acc, rids) ==
  IF rids = <<>> THEN acc ELSE AssignIds(AssignId(acc, Head(rids)), Tail(rids))

\* lines 154-165: one xref
LabelXref(acc, xref) ==
  IF IsThrown(acc) THEN acc
  ELSE LET a == AssignIds([acc EXCEPT !.numbers = <<>>], Split(xref.rid))
       IN IF IsThrown(a) THEN a
          ELSE [a EXCEPT !.xrefLabels = ObjSet(a.xrefLabels, xref.id, GetLabelList(a.numbers))]

RECURSIVE LabelXrefs(_, _)
LabelXrefs(acc, xs) ==
  IF xs = <<>> THEN acc ELSE LabelXrefs(LabelXref(acc, Head(xs)), Tail(xs))

\* lines 150-165, with pos starting at start
ComputeLabelsFrom(start, bibr) ==
  LabelXrefs([pos |-> start, order |-> EmptyMap, refLabels |-> EmptyMap,
              numbers |-> <<>>, xrefLabels |-> EmptyMap], bibr)

\* the loop with pos starting where the positions in use end (one per xref label)
ComputeLabelsOn(bibr) ==
  ComputeLabelsFrom(StartPos + Cardinality({ i \in DOMAIN bibr : bibr[i].label # Undefined }), bibr)

\* lines 150-165
ComputeLabels(bibr) == ComputeLabelsFrom(StartPos, bibr)

\* a write-back that keeps a label the xref already has
WriteXrefOnce(x, c) ==
  IF x.reftype = "bibr" /\ x.label = Undefined
  THEN [x EXCEPT !.label = ObjGetLabel(c.xrefLabels, x.id)] ELSE x

\* lines 172-179: the state of an xref after the write-back
WriteXref(x, c) ==
  IF x.reftype = "bibr" THEN [x EXCEPT !.label = ObjGetLabel(c.xrefLabels, x.id)] ELSE x

\* a lookup of the entity at every call
ResolveEntityAlways(r, db) == [r EXCEPT !.entity = EntityGet(db, r.rid)]

\* lines 56-64: getBibliography resolves the entity of a ref once
ResolveEntity(r, db) ==
  IF r.entity = Undefined THEN [r EXCEPT !.entity = EntityGet(db, r.rid)] ELSE r

\* lines 181-189: the state of a ref after the write-back
WriteRef(r, c) ==
  LET label == ObjGetLabel(c.refLabels, r.id)
  IN [r EXCEPT !.label = IF label = Undefined \/ label = "" THEN "" ELSE label,
               !.pos = ObjGetPos(c.order, r.id)]

\* lines 178, 188, 192: the keys of change.updated
UpdatedIds(bibr, rs) ==
  { id \in { bibr[i].id : i \in DOMAIN bibr } \cup { rs[i].id : i \in DOMAIN rs } \cup {RefListId} :
      id # "__proto__" }

\* _updateCitationLabels without the return at line 148
UpdateCitationLabelsAlways(xs, rs, db, ord) ==
  LET bibr == FindBibrXrefs(xs)
      c == ComputeLabels(bibr)
  IN IF IsThrown(c) THEN Thrown
     ELSE [xrefs |-> [i \in DOMAIN xs |-> WriteXref(xs[i], c)],
           refs |-> [i \in DOMAIN rs |-> WriteRef(ResolveEntity(rs[i], db), c)],
           order |-> c.order,
           out |-> <<UpdatedIds(bibr, rs)>>]

\* the whole of _updateCitationLabels as a function of the document:
\* the new xrefs, refs, order, and the emitted changes; or Thrown, and then
\* nothing was written or emitted (the loop of lines 154-165 fills locals only)
UpdateCitationLabels(xs, rs, db, ord) ==
  LET bibr == FindBibrXrefs(xs)
      c == ComputeLabels(bibr)
  IN IF Len(bibr) = 0
     THEN [xrefs |-> xs, refs |-> rs, order |-> ord, out |-> <<>>]
     ELSE IF IsThrown(c) THEN Thrown
     ELSE [xrefs |-> [i \in DOMAIN xs |-> WriteXref(xs[i], c)],
           refs |-> [i \in DOMAIN rs |-> WriteRef(ResolveEntity(rs[i], db), c)],
           order |-> c.order,
           out |-> <<UpdatedIds(bibr, rs)>>]

\* the document, order and emitted changes a call of _updateCitationLabels leaves,
\* u what it gave on the document xs, rs
AfterCall(u, xs, rs) ==
  IF IsThrown(u) THEN [xrefs |-> xs, refs |-> rs, order |-> EmptyMap, out |-> <<>>] ELSE u

\* ------------------------------------------------------------- change operations
\* op.type, op.val (a node's data for create/delete: type, attributes['ref-type'];
\* the new value for set), op.path, op.original
NodeOp(t, nodeType, hasAttrs, rt) ==
  [type |-> t, nodeType |-> nodeType, hasAttrs |-> hasAttrs, refType |-> rt,
   path |-> <<>>, val |-> Undefined, original |-> Undefined]
SetOp(path, val, original) ==
  [type |-> "set", nodeType |-> Undefined, hasAttrs |-> FALSE, refType |-> Undefined,
   path |-> path, val |-> val, original |-> original]
UpdateOp(path) ==
  [type |-> "update", nodeType |-> Undefined, hasAttrs |-> FALSE, refType |-> Undefined,
   path |-> path, val |-> Undefined, original |-> Undefined]

\* op.path[i], undefined past the end (i counts from 0)
PathAt(op, i) == IF i + 1 <= Len(op.path) THEN op.path[i + 1] ELSE Undefined

\* a test of the new value only
RefTypeSetToBibr(op) == op.val = "bibr"

\* line 97: is this a set of ref-type to or from 'bibr'
RefTypeSetMatches(op) == op.val = "bibr" \/ op.original = "bibr"

\* lines 101-106: is this a set of rid on a node whose ref-type is 'bibr' now
RidSetMatches(op, xs, rs) ==
  /\ DocHas(xs, rs, PathAt(op, 0))
  /\ GetRefType(xs, rs, PathAt(op, 0)) = "bibr"

\* lines 85-113: the switch for one op
OpNeedsUpdate(op, xs, rs) ==
  CASE op.type \in {"delete", "create"} ->
         op.nodeType = "xref" /\ op.hasAttrs /\ op.refType = "bibr"
    [] op.type = "set" ->
         /\ PathAt(op, 1) = "attributes"
         /\ IF PathAt(op, 2) = "ref-type" /\ RefTypeSetMatches(op) THEN TRUE
            ELSE IF PathAt(op, 2) = "rid" THEN RidSetMatches(op, xs, rs)
            ELSE FALSE
    [] OTHER -> FALSE

RECURSIVE ScanOpsUntilMissing(_, _, _, _)
\* a loop that gives up at a set of rid on a node the document does not have
ScanOpsUntilMissing(ops, i, xs, rs) ==
  IF i > Len(ops) THEN FALSE
  ELSE IF /\ ops[i].type = "set" /\ PathAt(ops[i], 1) = "attributes" /\ PathAt(ops[i], 2) = "rid"
          /\ ~DocHas(xs, rs, PathAt(ops[i], 0))
       THEN FALSE
  ELSE IF OpNeedsUpdate(ops[i], xs, rs) THEN TRUE
  ELSE ScanOpsUntilMissing(ops, i + 1, xs, rs)

RECURSIVE ScanOps(_, _, _, _)
\* lines 82-115: the loop from op i on, leaving at the first match
ScanOps(ops, i, xs, rs) ==
  IF i > Len(ops) THEN FALSE
  ELSE IF OpNeedsUpdate(ops[i], xs, rs) THEN TRUE
  ELSE ScanOps(ops, i + 1, xs, rs)

\* needsUpdate at line 116, for the ops of a change and the document as committed
NeedsUpdate(ops, xs, rs) == ScanOps(ops, 1, xs, rs)

\* a handler that schedules a callback for every change, relevant or not
ScheduleAlways(ts, needs) == ts + 1

\* lines 116-123: the pending callbacks after the handler
Schedule(ts, needs) == IF needs THEN ts + 1 ELSE ts

\* ------------------------------------------------------------- construction
\* lines 6-29: the state the constructor leaves for a document and an entity db
Constructed(xs, rs, db) ==
  LET u == AfterCall(UpdateCitationLabels(xs, rs, db, EmptyMap), xs, rs)
  IN /\ xrefs = u.xrefs
     /\ refs = u.refs
     /\ order = u.order
     /\ out = u.out
     /\ entityDb = db
     /\ status = "active"
     /\ arg = NoArg
     /\ ret = NoRet

\* the documents a manager is constructed on: no, one or two citations,
\* and a bibliography of no, one or two entries
InitXrefs ==
  { <<>>,
    << XrefNode("x1", "bibr", <<"A", " ", "A">>) >>,
    << XrefNode("x1", "bibr", <<"B", " ", "A">>), XrefNode("x2", "bibr", <<"A", " ", "C">>) >> }
InitRefs ==
  { <<>>,
    << RefNode("A", KeyOf("A")) >>,
    << RefNode("A", KeyOf("A")), RefNode("B", KeyOf("B")) >> }

Init ==
  /\ change = <<>>
  /\ \E xs \in InitXrefs, rs \in InitRefs : Constructed(xs, rs, {KeyOf("A")})
  /\ timers = 0
  /\ last = "init"
  /\ needsUpdate = FALSE

\* ------------------------------------------------------------- transactions
\* the least xref id of the pool the document does not use
FreshXrefId(xs) ==
  LET used == { xs[i].id : i \in DOMAIN xs }
  IN IF "x1" \notin used THEN "x1" ELSE "x2"

InsertAt(s, at, e) == SubSeq(s, 1, at - 1) \o <<e>> \o SubSeq(s, at, Len(s))
RemoveAt(s, at) == SubSeq(s, 1, at - 1) \o SubSeq(s, at + 1, Len(s))

\* _onDocumentChange on a committed change: the document is already xs, rs
OnDocumentChange(ops, xs, rs) ==
  LET needs == NeedsUpdate(ops, xs, rs)
  IN /\ needs => timers < MaxPending
     /\ needsUpdate' = needs
     /\ timers' = Schedule(timers, needs)

\* a committed transaction whose handler runs the recompute itself, before it returns
CommitAndRecompute(xs, rs, ops) ==
  LET needs == status = "active" /\ NeedsUpdate(ops, xs, rs)
      u == AfterCall(UpdateCitationLabels(xs, rs, entityDb, EmptyMap), xs, rs)
  IN /\ xrefs' = IF needs THEN u.xrefs ELSE xs
     /\ refs' = IF needs THEN u.refs ELSE rs
     /\ out' = IF needs THEN u.out ELSE <<>>
     /\ needsUpdate' = needs
     /\ timers' = timers
     /\ order' = EmptyMap
     /\ change' = <<>>
     /\ ret' = NoRet
     /\ UNCHANGED <<entityDb, status>>

\* a committed transaction: the document changes, and the session calls the
\* handler while the manager is subscribed
Commit(xs, rs, ops) ==
  /\ xrefs' = xs
  /\ refs' = rs
  /\ IF status = "active"
     THEN OnDocumentChange(ops, xs, rs)
     ELSE /\ needsUpdate' = FALSE
          /\ timers' = timers
  /\ out' = <<>>
  /\ order' = EmptyMap
  /\ change' = <<>>
  /\ ret' = NoRet
  /\ UNCHANGED <<entityDb, status>>

InsertXref ==
  /\ \E id \in XrefPool : \A i \in DOMAIN xrefs : xrefs[i].id # id
  /\ \E at \in 1..(Len(xrefs) + 1), rt \in RefTypes, rid \in EditRids :
       Commit(InsertAt(xrefs, at, XrefNode(FreshXrefId(xrefs), rt, rid)), refs,
              << NodeOp("create", "xref", TRUE, rt) >>)
  /\ last' = "change"
  /\ arg' = NoArg

DeleteXref ==
  /\ \E i \in DOMAIN xrefs :
       Commit(RemoveAt(xrefs, i), refs, << NodeOp("delete", "xref", TRUE, xrefs[i].reftype) >>)
  /\ last' = "change"
  /\ arg' = NoArg

SetRefType ==
  /\ \E i \in DOMAIN xrefs, rt \in RefTypes :
       /\ rt # xrefs[i].reftype
       /\ Commit([xrefs EXCEPT ![i].reftype = rt], refs,
                 << SetOp(<<xrefs[i].id, "attributes", "ref-type">>, rt, xrefs[i].reftype) >>)
  /\ last' = "change"
  /\ arg' = NoArg

SetRid ==
  /\ \E i \in DOMAIN xrefs, rid \in EditRids :
       /\ rid # xrefs[i].rid
       /\ Commit([xrefs EXCEPT ![i].rid = rid], refs,
                 << SetOp(<<xrefs[i].id, "attributes", "rid">>, Flatten(rid), Flatten(xrefs[i].rid)) >>)
  /\ last' = "change"
  /\ arg' = NoArg

\* changes that touch no citation: another attribute of an xref, text of a paragraph,
\* a paragraph created
OtherChange ==
  /\ \/ \E i \in DOMAIN xrefs :
          Commit(xrefs, refs, << SetOp(<<xrefs[i].id, "attributes", "specific-use">>, "x", Undefined) >>)
     \/ Commit(xrefs, refs, << UpdateOp(<<"p1", "content">>) >>)
     \/ Commit(xrefs, refs, << NodeOp("create", "p", FALSE, Undefined) >>)
  /\ last' = "change"
  /\ arg' = NoArg

\* ------------------------------------------------------------- updateReferences
\* the rid attributes read from the last child to the first
GetReferenceIdsReversed(rs) == [i \in DOMAIN rs |-> rs[Len(rs) + 1 - i].rid]

\* lines 41-45: getReferenceIds
GetReferenceIds(rs) == [i \in DOMAIN rs |-> rs[i].rid]

\* updateEntityChildArray: the children of ref-list after the reconciliation. A key
\* that stays keeps its node (and the node's state), a new key gets a new node
ReconcileRefs(rs, oldKeys, newKeys) ==
  [i \in DOMAIN newKeys |->
     IF \E j \in DOMAIN oldKeys : oldKeys[j] = newKeys[i]
     THEN rs[CHOOSE j \in DOMAIN oldKeys : oldKeys[j] = newKeys[i]]
     ELSE RefNode(IdOf(newKeys[i]), newKeys[i])]

\* the ops of that transaction: a ref created per new key, the children of ref-list
\* updated, a ref deleted per key that went
ReconcileOps(oldKeys, newKeys) ==
  [i \in 1..Cardinality(Range(newKeys) \ Range(oldKeys)) |-> NodeOp("create", "ref", TRUE, Undefined)]
  \o << UpdateOp(<<RefListId, "_childNodes">>) >>
  \o [i \in 1..Cardinality(Range(oldKeys) \ Range(newKeys)) |-> NodeOp("delete", "ref", TRUE, Undefined)]

\* lines 35-39, for one value of newRefs; a call with the keys the list has already
\* leaves the document as it is
UpdateReferencesTo(newRefs) ==
  /\ status \in {"active", "disposed"}
  /\ LET oldRefs == GetReferenceIds(refs)
     IN /\ Commit(xrefs, ReconcileRefs(refs, oldRefs, newRefs), ReconcileOps(oldRefs, newRefs))
        /\ arg' = [oldRefs |-> oldRefs, newRefs |-> newRefs]
  /\ last' = "updateReferences"

UpdateReferences == \E newRefs \in EditKeyLists : UpdateReferencesTo(newRefs)

\* ------------------------------------------------------------- getBibliography
\* line 66: the comparator's result as the number the sort takes it for (true is 1,
\* false is 0). Two numbers compare as numbers, two members of Object.prototype as
\* the strings they convert to; every other comparison (with an undefined pos, or
\* of a number with an object, which converts to NaN) is false
Compare(a, b) ==
  IF \/ (a.pos > NoPos /\ b.pos > NoPos /\ a.pos > b.pos)
     \/ (a.pos < NoPos /\ b.pos < NoPos /\ a.pos > b.pos)
  THEN 1 ELSE 0

\* Array.prototype.sort with a comparator that is not consistent (it never returns a
\* negative number) sorts in an order the engine defines.  Two engines:
\* "negative": a binary insertion that places an element before those the comparator
\*             returns a negative number against (V8 from 7.0 on);
\* "positive": a linear insertion that moves an element left past those the
\*             comparator returns a positive number against (V8 before 7.0 on short
\*             arrays, SpiderMonkey).
SortEngines == {"negative", "positive"}

RECURSIVE BinarySearch(_, _, _, _)
\* where e goes in s[left+1..right] (indices from 0 as in the engine)
BinarySearch(s, e, left, right) ==
  IF left >= right THEN left
  ELSE LET mid == left + ((right - left) \div 2)
       IN IF Compare(e, s[mid + 1]) < 0
          THEN BinarySearch(s, e, left, mid)
          ELSE BinarySearch(s, e, mid + 1, right)

InsertByNegative(s, e) == InsertAt(s, BinarySearch(s, e, 0, Len(s)) + 1, e)

RECURSIVE InsertByPositive(_, _)
InsertByPositive(s, e) ==
  IF s = <<>> THEN <<e>>
  ELSE IF Compare(s[Len(s)], e) > 0
       THEN Append(InsertByPositive(SubSeq(s, 1, Len(s) - 1), e), s[Len(s)])
       ELSE Append(s, e)

RECURSIVE SortFrom(_, _, _)
\* the elements of rest inserted one by one into done
SortFrom(engine, done, rest) ==
  IF rest = <<>> THEN done
  ELSE SortFrom(engine,
                IF engine = "negative" THEN InsertByNegative(done, Head(rest))
                ELSE InsertByPositive(done, Head(rest)),
                Tail(rest))

\* lines 65-67: refs.map(...).sort((a,b) => a.state.pos > b.state.pos)
SortByPos(engine, rs) == SortFrom(engine, <<>>, rs)

\* lines 50-68, as a call from outside: the entity of each ref is resolved, and the
\* refs are returned in the order the sort leaves a copy of the list in
GetBibliography ==
  /\ status \in {"active", "disposed"}
  /\ refs' = [i \in DOMAIN refs |-> ResolveEntity(refs[i], entityDb)]
  /\ \E engine \in SortEngines : ret' = SortByPos(engine, refs')
  /\ last' = "getBibliography"
  /\ out' = <<>>
  /\ order' = EmptyMap
  /\ needsUpdate' = FALSE
  /\ arg' = NoArg
  /\ UNCHANGED <<xrefs, entityDb, timers, status, change>>

\* ------------------------------------------------------------- the deferred recompute
\* lines 120-122: a callback runs _updateCitationLabels
RunTimer ==
  /\ timers > 0
  /\ LET call == UpdateCitationLabels(xrefs, refs, entityDb, EmptyMap)
         u == AfterCall(call, xrefs, refs)
     IN /\ xrefs' = u.xrefs
        /\ refs' = u.refs
        /\ order' = u.order
        /\ out' = u.out
        /\ last' = IF IsThrown(call) THEN "recompute-threw"
                   ELSE IF last \in {"recompute", "recompute-again"} THEN "recompute-again"
                   ELSE "recompute"
  /\ timers' = timers - 1
  /\ needsUpdate' = FALSE
  /\ arg' = NoArg
  /\ ret' = NoRet
  /\ UNCHANGED <<entityDb, status, change>>

\* lines 31-33
Dispose ==
  /\ status = "active"
  /\ status' = "disposed"
  /\ last' = "dispose"
  /\ out' = <<>>
  /\ order' = EmptyMap
  /\ needsUpdate' = FALSE
  /\ arg' = NoArg
  /\ ret' = NoRet
  /\ UNCHANGED <<xrefs, refs, entityDb, timers, change>>

\* the manager over the histories of a document: committed changes of the
\* citations and of the bibliography, and the deferred recomputes
Next ==
  \/ InsertXref
  \/ DeleteXref
  \/ SetRefType
  \/ SetRid
  \/ OtherChange
  \/ UpdateReferences
  \/ GetBibliography
  \/ RunTimer

Spec == Init /\ [][Next]_vars

\* setTimeout runs every callback it was given. A step that takes a callback off
\* the timers is a RunTimer step, and one is possible whenever a callback is pending
TimerRuns == timers > 0 /\ timers' = timers - 1

FairSpec == Spec /\ WF_timers(TimerRuns)

\* ------------------------------------------------------------- the life of a manager
\* context.editorSession, context.entityDbSession, context.configurator: given or not
Contexts == [editorSession : BOOLEAN, entityDbSession : BOOLEAN, configurator : BOOLEAN]

\* a constructor that tests the context after it has subscribed and computed the
\* initial labels
ConstructorTestsLast(ctx) ==
  [ threw |-> ~ctx.editorSession \/ ~ctx.entityDbSession \/ ~ctx.configurator,
    subscribed |-> ctx.editorSession,
    recomputed |-> ctx.editorSession /\ ctx.configurator ]

\* lines 6-29: does the constructor throw (lines 11, 14, or line 17 on a context
\* without configurator), and has it by then subscribed the handler (line 25) and
\* run the initial recompute (line 28)
Constructor(ctx) ==
  IF ~ctx.editorSession \/ ~ctx.entityDbSession \/ ~ctx.configurator
  THEN [threw |-> TRUE, subscribed |-> FALSE, recomputed |-> FALSE]
  ELSE [threw |-> FALSE, subscribed |-> TRUE, recomputed |-> TRUE]

\* new ReferenceManager(context), on the document as it is
Construct ==
  /\ status = "new"
  /\ \E ctx \in Contexts :
       LET c == Constructor(ctx)
           call == UpdateCitationLabels(xrefs, refs, entityDb, EmptyMap)
           u == AfterCall(call, xrefs, refs)
       IN /\ arg' = ctx
          /\ status' = IF c.subscribed THEN "active" ELSE "failed"
          /\ last' = IF c.threw \/ (c.recomputed /\ IsThrown(call)) THEN "threw" ELSE "constructed"
          /\ xrefs' = IF c.recomputed THEN u.xrefs ELSE xrefs
          /\ refs' = IF c.recomputed THEN u.refs ELSE refs
          /\ order' = IF c.recomputed THEN u.order ELSE order
          /\ out' = IF c.recomputed THEN u.out ELSE <<>>
  /\ needsUpdate' = FALSE
  /\ ret' = NoRet
  /\ UNCHANGED <<entityDb, timers, change>>

\* a document and no manager yet
LifeInit ==
  /\ xrefs \in InitXrefs
  /\ refs \in InitRefs
  /\ entityDb = {KeyOf("A")}
  /\ status = "new"
  /\ timers = 0
  /\ last = "none"
  /\ needsUpdate = FALSE
  /\ change = <<>>
  /\ order = EmptyMap
  /\ out = <<>>
  /\ arg = NoArg
  /\ ret = NoRet

LifeNext ==
  \/ Construct
  \/ Dispose
  \/ Next

LifeSpec == LifeInit /\ [][LifeNext]_vars

\* ------------------------------------------------------------- the recompute alone
\* _updateCitationLabels over the documents of up to MaxXrefs xrefs and MaxRefs
\* refs: a callback is pending on a document whose node states are unset or stale
StaleLabel == "7"
DocXrefs ==
  UNION { { [i \in 1..n |-> XrefNode(XrefId(i), rt[i], rid[i])] :
              rt \in [1..n -> RefTypes], rid \in [1..n -> RidChoices] } : n \in 0..MaxXrefs }
DocRefIdLists ==
  { ids \in UNION { [1..n -> RefIds] : n \in 0..MaxRefs } :
      \A i, j \in DOMAIN ids : i # j => ids[i] # ids[j] }
DocRefs == { [i \in DOMAIN ids |-> RefNode(ids[i], KeyOf(ids[i]))] : ids \in DocRefIdLists }

\* the recompute is explored on these and on documents whose citations name
\* '__proto__' or 'hasOwnProperty' ("__proto__ A", "hasOwnProperty A") and whose
\* list has an entry with the id 'constructor'
ProtoRids ==
  { <<"_", "_", "p", "r", "o", "t", "o", "_", "_", " ", "A">>,
    <<"h", "a", "s", "O", "w", "n", "P", "r", "o", "p", "e", "r", "t", "y", " ", "A">> }
ComputeXrefs ==
  UNION { { [i \in 1..n |-> XrefNode(XrefId(i), rt[i], rid[i])] :
              rt \in [1..n -> RefTypes], rid \in [1..n -> RidChoices \cup ProtoRids] } : n \in 0..MaxXrefs }
ComputeRefIdLists ==
  { ids \in UNION { [1..n -> RefIds \cup {"constructor"}] : n \in 0..MaxRefs } :
      \A i, j \in DOMAIN ids : i # j => ids[i] # ids[j] }
ComputeRefs == { [i \in DOMAIN ids |-> RefNode(ids[i], KeyOf(ids[i]))] : ids \in ComputeRefIdLists }

ComputeInit ==
  /\ \E xs \in ComputeXrefs, rs \in ComputeRefs, stale \in BOOLEAN :
       /\ xrefs = [i \in DOMAIN xs |-> [xs[i] EXCEPT !.label = IF stale THEN StaleLabel ELSE Undefined]]
       /\ refs = [i \in DOMAIN rs |-> [rs[i] EXCEPT !.label = IF stale THEN StaleLabel ELSE Undefined,
                                                     !.pos = IF stale THEN 7 ELSE NoPos]]
  /\ entityDb = {KeyOf("A")}
  /\ status = "active"
  /\ timers = 1
  /\ last = "change"
  /\ needsUpdate = TRUE
  /\ change = <<>>
  /\ order = EmptyMap
  /\ out = <<>>
  /\ arg = NoArg
  /\ ret = NoRet

ComputeSpec == ComputeInit /\ [][RunTimer]_vars

\* ------------------------------------------------------------- updateReferences alone
\* updateReferences with every list of up to MaxRefs distinct keys, on a manager
\* constructed on a document of up to MaxXrefs xrefs and MaxRefs refs
KeyLists == { [i \in DOMAIN ids |-> KeyOf(ids[i])] : ids \in DocRefIdLists }

ReconcileInit ==
  /\ \E xs \in DocXrefs, rs \in DocRefs : Constructed(xs, rs, {KeyOf("A")})
  /\ timers = 0
  /\ last = "init"
  /\ needsUpdate = FALSE
  /\ change = <<>>

UpdateReferencesToAny == \E newRefs \in KeyLists : UpdateReferencesTo(newRefs)

ReconcileSpec == ReconcileInit /\ [][UpdateReferencesToAny]_vars

\* ------------------------------------------------------------- the entity db
\* the entity db is edited elsewhere: a record is created or deleted
PutEntity ==
  /\ \E key \in Keys \ entityDb : entityDb' = entityDb \cup {key}
  /\ last' = "entityDb"
  /\ out' = <<>> /\ order' = EmptyMap /\ needsUpdate' = FALSE /\ arg' = NoArg /\ ret' = NoRet
  /\ UNCHANGED <<xrefs, refs, timers, status, change>>

DeleteEntity ==
  /\ \E key \in entityDb : entityDb' = entityDb \ {key}
  /\ last' = "entityDb"
  /\ out' = <<>> /\ order' = EmptyMap /\ needsUpdate' = FALSE /\ arg' = NoArg /\ ret' = NoRet
  /\ UNCHANGED <<xrefs, refs, timers, status, change>>

\* a manager constructed on a document of up to MaxRefs refs with any of the
\* entities in the db, and up to MaxPending callbacks pending
EntityInit ==
  /\ \E xs \in InitXrefs, rs \in DocRefs, db \in SUBSET Keys : Constructed(xs, rs, db)
  /\ timers \in 0..MaxPending
  /\ last = "init"
  /\ needsUpdate = FALSE
  /\ change = <<>>

EntityNext ==
  \/ GetBibliography
  \/ RunTimer
  \/ PutEntity
  \/ DeleteEntity

EntitySpec == EntityInit /\ [][EntityNext]_vars

\* ------------------------------------------------------------- the classification alone
\* _onDocumentChange over the changes of up to MaxOps ops, on a document as committed
ClassifyXrefs ==
  { <<>>,
    << XrefNode("x1", "bibr", <<"A">>) >>,
    << XrefNode("x1", "fig", <<"A">>) >>,
    << XrefNode("x1", "fig", <<"A">>), XrefNode("x2", "bibr", <<"A">>) >> }

ClassifyOps ==
  { NodeOp(t, n[1], n[2], n[3]) :
      t \in {"create", "delete"},
      n \in { <<"xref", TRUE, "bibr">>, <<"xref", TRUE, "fig">>, <<"xref", FALSE, Undefined>>,
              <<"p", TRUE, "bibr">>, <<"p", FALSE, Undefined>> } }
  \cup { SetOp(<<"x1", p, "ref-type">>, v, o) :
           p \in {"attributes", "state"}, v \in RefTypes, o \in RefTypes }
  \cup { SetOp(<<id, p, "rid">>, "B", "A") : id \in {"x1", "x2", "A"}, p \in {"attributes", "state"} }
  \cup { SetOp(<<"x1", "attributes", "specific-use">>, "x", Undefined),
         SetOp(<<"x1", "content">>, "x", "y"),
         UpdateOp(<<"p1", "content">>) }

ClassifyChanges == UNION { [1..n -> ClassifyOps] : n \in 1..MaxOps }

ClassifyInit ==
  /\ \E xs \in ClassifyXrefs : Constructed(xs, << RefNode("A", KeyOf("A")) >>, {})
  /\ change \in ClassifyChanges
  /\ timers = 0
  /\ last = "committed"
  /\ needsUpdate = FALSE

\* the session calls the handler with the committed change
Notify ==
  /\ last = "committed"
  /\ OnDocumentChange(change, xrefs, refs)
  /\ last' = "change"
  /\ UNCHANGED <<xrefs, refs, entityDb, status, change, order, out, arg, ret>>

ClassifySpec == ClassifyInit /\ [][Notify]_vars

\* ------------------------------------------------------------- what the citations call for
RECURSIVE CitedIds(_)
\* the ids the citations name, in document order and each citation's listed order
CitedIds(bibr) == IF bibr = <<>> THEN <<>> ELSE Split(Head(bibr).rid) \o CitedIds(Tail(bibr))

FirstIndex(ids, id) == CHOOSE i \in DOMAIN ids : ids[i] = id /\ \A j \in 1..(i - 1) : ids[j] # id

\* the first-citation rank of a cited id: how many distinct ids occur up to its
\* first occurrence
Rank(ids, id) == Cardinality({ ids[j] : j \in 1..FirstIndex(ids, id) })

JustRecomputed == last \in {"recompute", "recompute-again"}
RecomputeThrew == last = "recompute-threw"
\* a callback ran _updateCitationLabels, to its end or to the line that threw
RecomputeRan == JustRecomputed \/ RecomputeThrew
HandlerRan == last \in {"change", "updateReferences"}

\* ------------------------------------------------------------- claims

\* C1: at every moment at most one recompute is scheduled and not yet run, so two
\* relevant notifications handled before the recompute fires give one run.
AtMostOnePending == timers <= 1

\* C2: whenever no recompute is pending, an entry of the list no citation names has
\* no label (empty or never written) and no position, and an entry a citation names
\* has its first-citation rank as position and the label of that position.
EntriesFollowCitations ==
  timers = 0 =>
    LET ids == CitedIds(FindBibrXrefs(xrefs))
    IN \A i \in DOMAIN refs :
         IF refs[i].id \in Range(ids)
         THEN /\ refs[i].pos = Rank(ids, refs[i].id)
              /\ refs[i].label = GetLabel(refs[i].pos)
         ELSE /\ refs[i].label \in {"", Undefined}
              /\ refs[i].pos = NoPos

\* C3: after a recompute over a non-empty list of citations, the ids with a position
\* are the ids the citations name, and of two of them the one whose first occurrence
\* (in document order, then in the citation's listed order) comes first has the
\* smaller position.
PositionsFollowFirstOccurrence ==
  (JustRecomputed /\ FindBibrXrefs(xrefs) # <<>>) =>
    LET ids == CitedIds(FindBibrXrefs(xrefs))
    IN /\ DOMAIN order = Range(ids)
       /\ \A a, b \in Range(ids) :
            (order[a] < order[b]) <=> (FirstIndex(ids, a) < FirstIndex(ids, b))

\* the positions of the ids a citation lists, in its listed order
PositionsOf(rid) == [i \in DOMAIN Split(rid) |-> order[Split(rid)[i]]]

\* C4: after a recompute, the label of every citation is the label of the list of
\* the positions of its ids, in the citation's own order and with an id listed
\* twice giving its position twice.
XrefLabelsFollowPositions ==
  (JustRecomputed /\ FindBibrXrefs(xrefs) # <<>>) =>
    \A i \in DOMAIN xrefs :
      xrefs[i].reftype = "bibr" =>
        /\ \A k \in DOMAIN Split(xrefs[i].rid) : Split(xrefs[i].rid)[k] \in DOMAIN order
        /\ xrefs[i].label = GetLabelList(PositionsOf(xrefs[i].rid))

\* the rules of the claim, each on one op
IsXrefBibrCreateOrDelete(op) ==
  op.type \in {"create", "delete"} /\ op.nodeType = "xref" /\ op.refType = "bibr"
IsRefTypeSetInvolvingBibr(op) ==
  /\ op.type = "set" /\ Len(op.path) >= 3
  /\ op.path[2] = "attributes" /\ op.path[3] = "ref-type"
  /\ "bibr" \in {op.val, op.original}
IsRidSetOnBibrNode(op) ==
  /\ op.type = "set" /\ Len(op.path) >= 3
  /\ op.path[2] = "attributes" /\ op.path[3] = "rid"
  /\ \E i \in DOMAIN xrefs : xrefs[i].id = op.path[1] /\ xrefs[i].reftype = "bibr"

\* C5: the handler finds a change relevant exactly when one of its ops creates or
\* deletes an xref with ref-type 'bibr', sets a ref-type attribute from or to 'bibr',
\* or sets the rid attribute of a node whose ref-type is 'bibr' now.
ClassifierFollowsRule ==
  last = "change" =>
    (needsUpdate <=>
       \E i \in DOMAIN change :
         \/ IsXrefBibrCreateOrDelete(change[i])
         \/ IsRefTypeSetInvolvingBibr(change[i])
         \/ IsRidSetOnBibrNode(change[i]))

\* a change of one op, a set of rid, was found relevant on a document where the
\* node is a citation, and scheduled the recompute
RidSetFoundRelevant ==
  /\ last = "change" /\ needsUpdate /\ timers = 1
  /\ Len(change) = 1 /\ IsRidSetOnBibrNode(change[1])

\* C9: a recompute that ran over a non-empty list of citations emitted one change,
\* whose updated ids include every citation, every entry of the list and the ref-list.
OneChangeCoversAll ==
  (RecomputeRan /\ FindBibrXrefs(xrefs) # <<>>) =>
    /\ Len(out) = 1
    /\ \A i \in DOMAIN xrefs : xrefs[i].reftype = "bibr" => xrefs[i].id \in out[1]
    /\ \A i \in DOMAIN refs : refs[i].id \in out[1]
    /\ RefListId \in out[1]

RecomputeStep == RecomputeRan' /\ timers' = timers - 1

\* C6: with the timers run fairly, a notification found relevant is followed by a
\* run of the recompute, and the recompute runs once per batch of relevant changes:
\* after a run nothing of the batch remains scheduled.
OneRunServesTheBatch ==
  /\ (HandlerRan /\ needsUpdate) ~> RecomputeRan
  /\ [][ RecomputeStep => timers' = 0 ]_vars

\* C7: a recompute on a document without a citation leaves the state of every xref
\* and of every ref as it was and emits no change.
EmptyScopeWritesNothing ==
  [][ (RecomputeStep /\ FindBibrXrefs(xrefs) = <<>>) => (xrefs' = xrefs /\ refs' = refs /\ out' = <<>>) ]_vars

\* the recompute ran on a document without a citation whose entry still has the
\* label and position of an earlier run
RanOnEmptyScope ==
  /\ JustRecomputed
  /\ FindBibrXrefs(xrefs) = <<>>
  /\ out = <<>>
  /\ \E i \in DOMAIN refs : refs[i].label = "1" /\ refs[i].pos = 1

LabelsAndPositions(xs, rs) ==
  << [i \in DOMAIN xs |-> xs[i].label],
     [i \in DOMAIN rs |-> <<rs[i].label, rs[i].pos>>] >>

\* C8: a recompute that runs right after a recompute, with no operation between
\* them, leaves every xref label, entry label and entry position as they were.
RecomputeIsIdempotent ==
  [][ (JustRecomputed /\ RecomputeStep) => LabelsAndPositions(xrefs', refs') = LabelsAndPositions(xrefs, refs) ]_vars

\* the recompute ran twice in a row on a document with citations and an entry
RanTwiceInARow ==
  /\ last = "recompute-again"
  /\ FindBibrXrefs(xrefs) # <<>>
  /\ refs # <<>>
  /\ Len(out) = 1

\* C10: after a recompute, the labels of the citations and the positions and labels
\* of the entries are those the citations of the document as it is call for.
LabelsAreOfTheCurrentDocument ==
  (JustRecomputed /\ FindBibrXrefs(xrefs) # <<>>) =>
    LET ids == CitedIds(FindBibrXrefs(xrefs))
    IN /\ \A i \in DOMAIN xrefs :
            xrefs[i].reftype = "bibr" =>
              xrefs[i].label =
                GetLabelList([k \in DOMAIN Split(xrefs[i].rid) |-> Rank(ids, Split(xrefs[i].rid)[k])])
       /\ \A i \in DOMAIN refs :
            refs[i].id \in Range(ids) =>
              (refs[i].pos = Rank(ids, refs[i].id) /\ refs[i].label = GetLabel(Rank(ids, refs[i].id)))

\* a recompute ran while a later relevant change, committed after it was scheduled,
\* still has its own recompute pending: the labels are those of the two citations
\* the document has now
RanAfterLaterChange ==
  /\ JustRecomputed
  /\ timers >= 1
  /\ Len(xrefs) = 2
  /\ xrefs[1].label = "1,2" /\ xrefs[2].label = "2"

\* the label and position state of the nodes of the document, by node id
NodeState(xs, rs) ==
  [id \in { xs[i].id : i \in DOMAIN xs } \cup { rs[i].id : i \in DOMAIN rs } |->
     IF \E i \in DOMAIN xs : xs[i].id = id
     THEN << (CHOOSE x \in Range(xs) : x.id = id).label >>
     ELSE << (CHOOSE r \in Range(rs) : r.id = id).label, (CHOOSE r \in Range(rs) : r.id = id).pos >>]

\* a step wrote no label or position state: a node that was there has the state it
\* had, and a node that is new has none
NoStateWritten ==
  LET before == NodeState(xrefs, refs)
      after == NodeState(xrefs', refs')
  IN \A id \in DOMAIN after :
       IF id \in DOMAIN before THEN after[id] = before[id]
       ELSE after[id] \in { <<Undefined>>, <<Undefined, NoPos>> }

\* C11: a step in which the handler runs (a committed change, from an edit or from
\* updateReferences) writes no label or position state and emits no change; a step
\* that does write state or emit a change is a run of a scheduled callback, which
\* takes one callback off the timers.
HandlerDefersTheRecompute ==
  [][ /\ HandlerRan' => (NoStateWritten /\ out' = <<>>)
      /\ (~NoStateWritten \/ out' # <<>>) => (RecomputeStep /\ timers > 0) ]_vars

\* the handler found a change of a document with two citations relevant: the new
\* citation has no label yet, nothing was emitted, and the recompute is scheduled
RelevantChangeLeftUnlabelled ==
  /\ HandlerRan /\ needsUpdate /\ timers = 1
  /\ Len(FindBibrXrefs(xrefs)) = 2
  /\ \E i \in DOMAIN xrefs : xrefs[i].reftype = "bibr" /\ xrefs[i].label = Undefined
  /\ out = <<>>

\* C12: a step in which the handler finds the change not relevant schedules no
\* callback, writes no label or position state and emits no change.
NotRelevantChangeHasNoEffect ==
  [][ (HandlerRan' /\ ~needsUpdate') => (timers' = timers /\ NoStateWritten /\ out' = <<>>) ]_vars

\* the handler found a change not relevant on a document whose two citations and
\* entry keep the labels of the last recompute, and nothing is scheduled
NotRelevantChangeHandled ==
  /\ last = "change" /\ ~needsUpdate /\ timers = 0
  /\ Len(xrefs) = 2 /\ xrefs[1].label = "1,2" /\ xrefs[2].label = "2,3"
  /\ \E i \in DOMAIN refs : refs[i].label = "2" /\ refs[i].pos = 2
  /\ out = <<>>

\* C13: what getBibliography returns holds the entries of the list, each once, in
\* ascending order of position, the entries without a position last.
BibliographySortedUnsetLast ==
  last = "getBibliography" =>
    /\ Len(ret) = Len(refs)
    /\ Range(ret) = Range(refs)
    /\ \A i, j \in DOMAIN ret :
         i < j => \/ ret[j].pos = NoPos
                  \/ (ret[i].pos # NoPos /\ ret[i].pos <= ret[j].pos)

\* C14: updateReferences hands the reconciliation, as the old keys, the rid
\* attributes of the children of ref-list in document order, and when it is done the
\* rid attributes of the children, read in order, are newRefs.
UpdateReferencesReconciles ==
  [][ last' = "updateReferences" =>
        /\ arg'.oldRefs = [i \in DOMAIN refs |-> refs[i].rid]
        /\ [i \in DOMAIN refs' |-> refs'[i].rid] = arg'.newRefs ]_vars

\* updateReferences was called with the two keys of the list in the other order:
\* the two entries changed places and kept their labels
ReferencesReordered ==
  /\ last = "updateReferences"
  /\ arg.oldRefs = << KeyOf("A"), KeyOf("B") >>
  /\ arg.newRefs = << KeyOf("B"), KeyOf("A") >>
  /\ Len(refs) = 2 /\ refs[1].id = "B" /\ refs[2].id = "A"
  /\ refs[1].label = "1" /\ refs[2].label = "2"

ConstructStep == status = "new" /\ status' # "new"

\* C15: constructing the manager with a context that lacks the editor session or the
\* entity db session throws, and does so before the handler is subscribed, before any
\* label or position state is written and before any change is emitted; and with
\* no manager subscribed, a later change of the document schedules nothing.
ConstructionFailsFast ==
  [][ /\ (ConstructStep /\ (~arg'.editorSession \/ ~arg'.entityDbSession)) =>
           /\ last' = "threw"
           /\ status' = "failed"
           /\ NoStateWritten /\ out' = <<>> /\ timers' = timers
      /\ status = "failed" =>
           /\ status' = "failed"
           /\ NoStateWritten /\ out' = <<>> /\ timers' = timers ]_vars

\* the constructor threw for a context with an editor session and without entity db
\* session, on a document with two citations: they have no label, nothing was emitted
ThrewWithoutEntityDb ==
  /\ last = "threw" /\ status = "failed"
  /\ arg.editorSession /\ ~arg.entityDbSession /\ arg.configurator
  /\ Len(FindBibrXrefs(xrefs)) = 2
  /\ \A i \in DOMAIN xrefs : xrefs[i].label = Undefined
  /\ out = <<>> /\ timers = 0

\* C20: once dispose() was called no recompute runs, no label or position state
\* is written and no change is emitted, also not by a callback that was scheduled
\* before dispose() and had not run.
NothingRunsAfterDispose ==
  [][ status = "disposed" => (~RecomputeStep /\ NoStateWritten /\ out' = <<>>) ]_vars

\* the citations whose rid attribute is not empty
NonEmptyCitations(xs) == SelectSeq(FindBibrXrefs(xs), LAMBDA x : x.rid # <<>>)

\* C16: after a recompute over a document with a citation whose rid attribute is
\* empty, that citation has the label of no positions (or none), and the positions
\* are those of the document without it: the ids the other citations name, each at
\* its first-citation rank among them.
EmptyRidAssignsNothing ==
  (JustRecomputed /\ \E i \in DOMAIN xrefs : xrefs[i].reftype = "bibr" /\ xrefs[i].rid = <<>>) =>
    LET ids == CitedIds(NonEmptyCitations(xrefs))
    IN /\ \A i \in DOMAIN xrefs :
            (xrefs[i].reftype = "bibr" /\ xrefs[i].rid = <<>>) =>
              xrefs[i].label \in {GetLabelList(<<>>), Undefined}
       /\ DOMAIN order = Range(ids)
       /\ \A id \in Range(ids) : order[id] = Rank(ids, id)

IsRidSetOnMissingNode(op) ==
  /\ op.type = "set" /\ Len(op.path) >= 3
  /\ op.path[2] = "attributes" /\ op.path[3] = "rid"
  /\ op.path[1] # RefListId
  /\ \A i \in DOMAIN xrefs : xrefs[i].id # op.path[1]
  /\ \A i \in DOMAIN refs : refs[i].id # op.path[1]

\* C17: the handler, given a change with a set of rid on a node the document no
\* longer has, finds the change relevant exactly when one of the other ops is
\* relevant by the rules, wherever it stands in the change, and schedules the
\* recompute then.
MissingNodeIsPassedOver ==
  (last = "change" /\ \E k \in DOMAIN change : IsRidSetOnMissingNode(change[k])) =>
    /\ needsUpdate <=>
         \E i \in DOMAIN change :
           /\ ~IsRidSetOnMissingNode(change[i])
           /\ \/ IsXrefBibrCreateOrDelete(change[i])
              \/ IsRefTypeSetInvolvingBibr(change[i])
              \/ IsRidSetOnBibrNode(change[i])
    /\ timers = IF needsUpdate THEN 1 ELSE 0

\* a change whose first op sets rid on the missing node x2 and whose second op
\* deletes a citation was found relevant
RelevantOpAfterMissingNode ==
  /\ last = "change" /\ needsUpdate /\ timers = 1
  /\ Len(change) = 2
  /\ IsRidSetOnMissingNode(change[1])
  /\ change[2] = NodeOp("delete", "xref", TRUE, "bibr")

\* C18: over the calls of getBibliography, the recomputes and the changes of the
\* entity db, an entry whose entity is resolved keeps that entity; an entry whose
\* entity is not resolved is looked up by every call of getBibliography, which
\* resolves it if the db has the record and leaves it unresolved if not.
EntityIsResolvedOnce ==
  [][ \A i \in DOMAIN refs :
        /\ refs[i].entity # Undefined => refs'[i].entity = refs[i].entity
        /\ (refs[i].entity = Undefined /\ last' = "getBibliography") =>
             refs'[i].entity = (IF refs[i].rid \in entityDb THEN refs[i].rid ELSE Undefined) ]_vars

\* getBibliography was called after the record of a resolved entry was deleted from
\* the db, and while the record of another entry is still missing: the one keeps
\* its entity, the other stays unresolved
ResolvedKeptAndMissingRetried ==
  /\ last = "getBibliography"
  /\ \E i \in DOMAIN refs : refs[i].entity # Undefined /\ refs[i].rid \notin entityDb
  /\ \E i \in DOMAIN refs : refs[i].entity = Undefined

\* C19: after a recompute over a non-empty list of citations, the positions given
\* are exactly 1..k, k the number of distinct identifiers the citations name (an
\* identifier is what the split of a rid attribute yields), and no two
\* identifiers have the same position.
PositionsDenseAndInjective ==
  (JustRecomputed /\ FindBibrXrefs(xrefs) # <<>>) =>
    LET k == Cardinality(Range(CitedIds(FindBibrXrefs(xrefs))))
    IN /\ { order[id] : id \in DOMAIN order } = 1..k
       /\ \A a, b \in DOMAIN order : order[a] = order[b] => a = b


====
